---- MODULE Spec2Model ----
(***************************************************************************)
(* Model of osbs/repo_utils.py: ModuleSpec (parse / format of module       *)
(* strings), RepoConfiguration (construction from the container YAML) and  *)
(* RepoInfo (lazy derivation of labels and base_image).                    *)
(*                                                                         *)
(* A Python str is a sequence of one-character strings; Python's None is   *)
(* the one-element sequence None, which is no str because "None" is not a  *)
(* character.                                                              *)
(***************************************************************************)
EXTENDS Integers, Sequences, FiniteSets, TLC

VARIABLES
    \* ModuleSpec: the text parsed, the caller's position, from_str's outcome,
    \* to_str's argument and its result
    text, mpc, parsed, include_profile, out,
    \* the repository: the container YAML file and the Dockerfile parser
    container_file, dockerfile_parser,
    \* the caller's position, RepoConfiguration(...)'s outcome
    pc, configuration,
    \* RepoInfo's fields
    _parsed, _labels, _base_image,
    \* the property last accessed and the outcome of that access
    op, result,
    \* history: how often the derivation ran, and the outcome of the first
    \* access to each property
    derivations, first,
    \* the repository's INI file, and the ConfigParser of the configuration
    ini_file, _config_parser,
    \* AdditionalTagsConfig: the tags argument and the additional-tags file,
    \* the caller's position, the object's fields, the list its tags property
    \* returned, and (history) whether the file was opened
    tags_arg, tags_file, tpc, _tags, _from_container_yaml, tags_out, file_read

mvars == <<text, mpc, parsed, include_profile, out>>

rvars == <<container_file, dockerfile_parser, pc, configuration,
           _parsed, _labels, _base_image, op, result, derivations, first>>

avars == <<ini_file, _config_parser>>

tvars == <<tags_arg, tags_file, tpc, _tags, _from_container_yaml, tags_out, file_read>>

vars == <<mvars, rvars, avars, tvars>>

\* ---------------------------------------------------------------- bounds

\* Longest module string that is parsed in SpecModuleSpec.
MaxLen == 9

\* Longest compose.modules list of a container YAML.
MaxModules == 2

\* The derivation of one RepoInfo is counted up to here.
MaxDerivations == 2

\* Longest tags argument of AdditionalTagsConfig.
MaxTags == 2

\* Most lines of an additional-tags file.
MaxLines == 2

\* ---------------------------------------------------------------- values

None == <<"None">>

\* Python truthiness of a str-or-None value: None and '' are falsy.
Truthy(x) == x # None /\ x # <<>>

\* The characters module strings are drawn from.
Chars == {"a", ":", "/"}

Texts == UNION {[1..n -> Chars] : n \in 0..MaxLen}

\* ------------------------------------------------------------ str helpers

\* '/' in text
Contains(s, ch) == \E i \in 1..Len(s) : s[i] = ch

\* index of the first / last occurrence of ch in s (s contains ch)
FirstIndex(s, ch) == CHOOSE i \in 1..Len(s) : s[i] = ch /\ \A j \in 1..(i - 1) : s[j] # ch

LastIndex(s, ch) == CHOOSE i \in 1..Len(s) : s[i] = ch /\ \A j \in (i + 1)..Len(s) : s[j] # ch

\* text.rsplit(ch, 1) for a text that contains ch: <<head, tail>>
RSplit1(s, ch) == <<SubSeq(s, 1, LastIndex(s, ch) - 1), SubSeq(s, LastIndex(s, ch) + 1, Len(s))>>

\* s.split(ch): the pieces between the occurrences of ch; ''.split(ch) is ['']
RECURSIVE Split(_, _)
Split(s, ch) ==
    IF ~Contains(s, ch) THEN <<s>>
    ELSE <<SubSeq(s, 1, FirstIndex(s, ch) - 1)>> \o Split(SubSeq(s, FirstIndex(s, ch) + 1, Len(s)), ch)

\* all(pieces): every piece is a non-empty str
All(pieces) == \A i \in 1..Len(pieces) : pieces[i] # <<>>

\* ------------------------------------------------------------- ModuleSpec

\* ModuleSpec.__init__(name, stream, version=None, context=None, profile=None)
ModuleSpec(name, stream, version, context, profile) ==
    [name |-> name, stream |-> stream, version |-> version, context |-> context, profile |-> profile]

\* FromPieces with the third piece taken as the context and the fourth as the version
FromPieces_swapped(pieces, profile) ==
    ModuleSpec(pieces[1], pieces[2],
               IF Len(pieces) >= 4 THEN pieces[4] ELSE None,
               IF Len(pieces) >= 3 THEN pieces[3] ELSE None,
               profile)

\* cls(*pieces, profile=profile) for 2 <= len(pieces) <= 4
FromPieces(pieces, profile) ==
    ModuleSpec(pieces[1], pieces[2],
               IF Len(pieces) >= 3 THEN pieces[3] ELSE None,
               IF Len(pieces) >= 4 THEN pieces[4] ELSE None,
               profile)

\* outcome of a call: a returned value, or a raised exception
Return(v) == [exc |-> "none", value |-> v]

Raise(type, what) == [exc |-> type, msg |-> what]

\* from_str without the check for an empty profile
from_str_empty_profile(t) ==
    LET profile == IF Contains(t, "/") THEN RSplit1(t, "/")[2] ELSE None
        module  == IF Contains(t, "/") THEN RSplit1(t, "/")[1] ELSE t
        pieces  == Split(module, ":")
    IN  IF ~(1 < Len(pieces) /\ Len(pieces) < 5)
        THEN Raise("ValueError", <<"should be in NAME:STREAM[:VERSION[:CONTEXT]][/PROFILE] format", module>>)
        ELSE IF ~All(pieces)
        THEN Raise("ValueError", <<"contains empty fields", module>>)
        ELSE Return(FromPieces(pieces, profile))

\* ModuleSpec.from_str(text)
from_str(t) ==
    LET profile == IF Contains(t, "/") THEN RSplit1(t, "/")[2] ELSE None
        module  == IF Contains(t, "/") THEN RSplit1(t, "/")[1] ELSE t
        pieces  == Split(module, ":")
    IN  IF ~(1 < Len(pieces) /\ Len(pieces) < 5)
        THEN Raise("ValueError", <<"should be in NAME:STREAM[:VERSION[:CONTEXT]][/PROFILE] format", module>>)
        ELSE IF ~All(pieces) \/ profile = <<>>
        THEN Raise("ValueError", <<"contains empty fields", module>>)
        ELSE Return(FromPieces(pieces, profile))

\* to_str that appends the profile whatever include_profile says
to_str_always_profile(m, inc) ==
    LET r1 == m.name \o <<":">> \o m.stream
        r2 == IF Truthy(m.version) THEN r1 \o <<":">> \o m.version ELSE r1
        r3 == IF Truthy(m.context) THEN r2 \o <<":">> \o m.context ELSE r2
    IN  IF Truthy(m.profile) THEN r3 \o <<"/">> \o m.profile ELSE r3

\* ModuleSpec.to_str(include_profile)
to_str(m, inc) ==
    LET r1 == m.name \o <<":">> \o m.stream
        r2 == IF Truthy(m.version) THEN r1 \o <<":">> \o m.version ELSE r1
        r3 == IF Truthy(m.context) THEN r2 \o <<":">> \o m.context ELSE r2
    IN  IF inc /\ Truthy(m.profile) THEN r3 \o <<"/">> \o m.profile ELSE r3

\* ------------------------------------------------------------ YAML values

\* A value read from a YAML (or JSON) document: null, a str, a sequence or
\* a mapping.  v is the content: the characters, the entries, or a function
\* from the mapping's keys.
Null == [t |-> "null", v |-> <<>>]

Str(s) == [t |-> "str", v |-> s]

List(l) == [t |-> "list", v |-> l]

Map(f) == [t |-> "map", v |-> f]

EmptyMap == Map(<<>>)

EmptyList == List(<<>>)

\* bool(y): None and the empty str, list and dict are false
IsTrue(y) == y.t # "null" /\ y.v # <<>>

\* x or y
Or(x, y) == IF IsTrue(x) THEN x ELSE y

\* d.get(k) of a mapping d
Get(d, k) == IF k \in DOMAIN d.v THEN d.v[k] ELSE Null

\* a null scalar read as the empty str
PyVal_empty(y) == y.v

\* the Python value of a YAML scalar: None, or the str
PyVal(y) == IF y.t = "null" THEN None ELSE y.v

\* a key that the document does not have
Absent == [t |-> "absent", v |-> <<>>]

Opt(k, y) == IF y = Absent THEN <<>> ELSE k :> y

\* --------------------------------------------------------------- the inputs

\* the entries of compose.modules: well-formed and malformed module strings
ModuleTexts ==
    { <<"n", ":", "s">>,
      <<"m", ":", "t", ":", "v">>,
      <<"n">>,
      <<"m", ":", ":", "v">>,
      <<"n", ":", "s", "/">> }

ModuleLists == UNION {[1..k -> ModuleTexts] : k \in 0..MaxModules}

ComposeValues ==
    {Absent, Null, EmptyMap, Map([modules |-> Null])}
        \cup {Map([modules |-> List(ms)]) : ms \in ModuleLists}

FlatpakValues ==
    {Absent, Null}
        \cup { Map(Opt("id", i) @@ Opt("name", n) @@ Opt("component", c) @@ Opt("base_image", b)) :
                 i \in {Absent, Str(<<"o", "r", "g">>)},
                 n \in {Absent, Str(<<>>), Str(<<"f", "n">>)},
                 c \in {Absent, Str(<<>>), Str(<<"f", "c">>)},
                 b \in {Absent, Str(<<"f", "b">>)} }

\* no container.yaml in the directory
NoFile == [t |-> "nofile", v |-> <<>>]

\* a container.yaml that does not load, or that the schema rejects
InvalidFile == [t |-> "invalid", v |-> <<>>]

\* container.yaml: missing, unreadable, empty, or a mapping
ContainerFiles ==
    {NoFile, InvalidFile, Null}
        \cup {Map(Opt("compose", c) @@ Opt("flatpak", f)) : c \in ComposeValues, f \in FlatpakValues}

\* RepoInfo(dockerfile_parser=None)
NoParser == [class |-> "NoneType"]

\* what reading a property of the Dockerfile parser gives
CantRead == Raise("IOError", <<"Can't read">>)

DfLabels == [name |-> <<"i", "m", "g">>]

DfBaseImage == <<"f", "e", "d">>

DockerfileParsers ==
    {NoParser}
        \cup { [class |-> "DockerfileParser", labels |-> l, baseimage |-> b, dockerfile_path |-> "/foo/bar"] :
                 l \in {Return(DfLabels), CantRead},
                 b \in {Return(DfBaseImage), CantRead} }

\* ------------------------------------------------------ RepoConfiguration

\* the loop over modules stopped at the first malformed entry
RECURSIVE ParseModules_first_error(_)
ParseModules_first_error(ms) ==
    IF ms = <<>> THEN [specs |-> <<>>, value_errors |-> <<>>]
    ELSE LET r    == from_str(Head(ms))
             rest == ParseModules_first_error(Tail(ms))
         IN  IF r.exc = "none"
             THEN [specs |-> <<r.value>> \o rest.specs, value_errors |-> rest.value_errors]
             ELSE [specs |-> <<>>, value_errors |-> <<r>>]

\* the loop over modules: the specs appended and the ValueErrors collected
RECURSIVE ParseModules(_)
ParseModules(ms) ==
    IF ms = <<>> THEN [specs |-> <<>>, value_errors |-> <<>>]
    ELSE LET r    == from_str(Head(ms))
             rest == ParseModules(Tail(ms))
         IN  IF r.exc = "none"
             THEN [specs |-> <<r.value>> \o rest.specs, value_errors |-> rest.value_errors]
             ELSE [specs |-> rest.specs, value_errors |-> <<r>> \o rest.value_errors]

\* self.container after the container file is read
ReadContainer(file) ==
    IF file = NoFile THEN Return(EmptyMap)
    ELSE IF file = InvalidFile
    THEN Raise("OsbsException", <<"Failed to load or validate container file">>)
    ELSE Return(Or(file, EmptyMap))

\* is_flatpak as the presence of the flatpak key
IsFlatpak_key_present(container) == "flatpak" \in DOMAIN container.v

\* flatpak = self.container.get('flatpak') or {}; bool(flatpak)
IsFlatpak(container) == IsTrue(Or(Get(container, "flatpak"), EmptyMap))

\* RepoConfiguration(dir_path): the object, or the exception raised
RepoConfiguration(file) ==
    LET rd == ReadContainer(file) IN
    IF rd.exc # "none" THEN rd
    ELSE
    LET container         == rd.value
        container_compose == Or(Get(container, "compose"), EmptyMap)
        modules           == Or(Get(container_compose, "modules"), EmptyList)
        pm                == ParseModules(modules.v)
        flatpak           == Or(Get(container, "flatpak"), EmptyMap)
    IN  IF pm.value_errors # <<>> THEN Raise("ValueError", pm.value_errors)
        ELSE Return([class                  |-> "RepoConfiguration",
                     container              |-> container,
                     autorebuild            |-> Or(Get(container, "autorebuild"), EmptyMap),
                     container_module_specs |-> pm.specs,
                     is_flatpak             |-> IsFlatpak(container),
                     flatpak_base_image     |-> PyVal(Get(flatpak, "base_image")),
                     flatpak_component      |-> PyVal(Get(flatpak, "component")),
                     flatpak_name           |-> PyVal(Get(flatpak, "name"))])

\* --------------------------------------------------------------- RepoInfo

\* self._labels = None
NoLabels == [class |-> "NoneType"]

\* Labels(mapping)
Labels(mapping) == [class |-> "Labels", labels |-> mapping]

MissingModules ==
    Raise("OsbsValidationException", <<"\"compose\" config is missing \"modules\", required for Flatpak">>)

CouldNotParse(path, e) == Raise("RuntimeError", <<"Could not parse Dockerfile in", path, e.msg>>)

\* the flatpak branch reading the last module instead of the first
FlatpakDerivation_last_module(self, conf) ==
    LET modules   == conf.container_module_specs
        module    == modules[Len(modules)]
        name      == IF Truthy(conf.flatpak_name) THEN conf.flatpak_name ELSE module.name
        component == IF Truthy(conf.flatpak_component) THEN conf.flatpak_component ELSE module.name
    IN  IF modules = <<>>
        THEN [self |-> self, exc |-> MissingModules]
        ELSE [self |-> [self EXCEPT
                          !._labels = Labels([name |-> name, component |-> component,
                                              version |-> module.stream]),
                          !._base_image = conf.flatpak_base_image],
              exc  |-> Return(None)]

\* the flatpak branch of _ensure_parsed: the fields it leaves, the exception
\* it raises
FlatpakDerivation(self, conf) ==
    LET modules   == conf.container_module_specs
        module    == modules[1]
        name      == IF Truthy(conf.flatpak_name) THEN conf.flatpak_name ELSE module.name
        component == IF Truthy(conf.flatpak_component) THEN conf.flatpak_component ELSE module.name
    IN  IF modules = <<>>
        THEN [self |-> self, exc |-> MissingModules]
        ELSE [self |-> [self EXCEPT
                          !._labels = Labels([name |-> name, component |-> component,
                                              version |-> module.stream]),
                          !._base_image = conf.flatpak_base_image],
              exc  |-> Return(None)]

\* the Dockerfile branch of _ensure_parsed
DockerfileDerivation(self, df_parser) ==
    IF df_parser = NoParser
    THEN [self |-> self,
          exc  |-> Raise("AttributeError", <<"'NoneType' object has no attribute 'labels'">>)]
    ELSE IF df_parser.labels.exc # "none"
    THEN [self |-> self, exc |-> CouldNotParse(df_parser.dockerfile_path, df_parser.labels)]
    ELSE IF df_parser.baseimage.exc # "none"
    THEN [self |-> [self EXCEPT !._labels = Labels(df_parser.labels.value)],
          exc  |-> CouldNotParse(df_parser.dockerfile_path, df_parser.baseimage)]
    ELSE [self |-> [self EXCEPT !._labels = Labels(df_parser.labels.value),
                                !._base_image = df_parser.baseimage.value],
          exc  |-> Return(None)]

\* _ensure_parsed without the early return for a parsed instance
ensure_parsed_always(self, conf, df_parser) ==
    LET d == IF conf.is_flatpak
             THEN FlatpakDerivation([self EXCEPT !._parsed = TRUE], conf)
             ELSE DockerfileDerivation([self EXCEPT !._parsed = TRUE], df_parser)
    IN  [self |-> d.self, exc |-> d.exc, ran |-> TRUE]

\* RepoInfo._ensure_parsed(): the fields it leaves, the exception it raises,
\* and whether the derivation ran
ensure_parsed(self, conf, df_parser) ==
    IF self._parsed THEN [self |-> self, exc |-> Return(None), ran |-> FALSE]
    ELSE LET d == IF conf.is_flatpak
                  THEN FlatpakDerivation([self EXCEPT !._parsed = TRUE], conf)
                  ELSE DockerfileDerivation([self EXCEPT !._parsed = TRUE], df_parser)
         IN  [self |-> d.self, exc |-> d.exc, ran |-> TRUE]

\* the labels property
labels(self, conf, df_parser) ==
    LET e == ensure_parsed(self, conf, df_parser)
    IN  [self |-> e.self, ran |-> e.ran,
         outcome |-> IF e.exc.exc # "none" THEN e.exc ELSE Return(e.self._labels)]

\* the base_image property
base_image(self, conf, df_parser) ==
    LET e == ensure_parsed(self, conf, df_parser)
    IN  [self |-> e.self, ran |-> e.ran,
         outcome |-> IF e.exc.exc # "none" THEN e.exc ELSE Return(e.self._base_image)]

\* RepoInfo.__init__: the lazy fields of a new instance
NewRepoInfo == [_parsed |-> FALSE, _labels |-> NoLabels, _base_image |-> None]

\* ------------------------------------------- RepoConfiguration: INI file

\* no INI file in the directory
NoIni == [t |-> "nofile", v |-> <<>>]

\* an INI file that ConfigParser.read() cannot parse
BadIni == [t |-> "invalid", v |-> <<>>]

\* an INI file: its sections, each a function from option to value
Ini(sections) == [t |-> "ini", v |-> sections]

\* values of the enabled option
IniValues == {"true", "True", "false", "yes", "0", "maybe"}

IniFiles ==
    {NoIni, BadIni, Ini(<<>>), Ini([autorebuild |-> <<>>]), Ini([other |-> [enabled |-> "true"]])}
        \cup {Ini([autorebuild |-> [enabled |-> v]]) : v \in IniValues}

\* RepoConfiguration.DEFAULT_CONFIG
DEFAULT_CONFIG == [autorebuild |-> [enabled |-> "false"]]

\* ConfigParser.read(): the file's options laid over the ones already set
ReadInto(parser, sections) ==
    [sec \in DOMAIN parser \cup DOMAIN sections |->
        IF sec \notin DOMAIN sections THEN parser[sec]
        ELSE IF sec \notin DOMAIN parser THEN sections[sec]
        ELSE sections[sec] @@ parser[sec]]

\* self._config_parser after the defaults and the INI file are read
ReadIni(ini) ==
    IF ini = NoIni THEN Return(DEFAULT_CONFIG)
    ELSE IF ini = BadIni THEN Raise("ParsingError", <<"File contains parsing errors">>)
    ELSE Return(ReadInto(DEFAULT_CONFIG, ini.v))

\* str.lower() on the values of IniValues
Lower(v) == IF v = "True" THEN "true" ELSE v

\* ConfigParser.BOOLEAN_STATES
BOOLEAN_STATES ==
    [x \in {"1", "yes", "true", "on", "0", "no", "false", "off"} |-> x \in {"1", "yes", "true", "on"}]

\* ConfigParser.getboolean(section, option)
getboolean(parser, section, option) ==
    LET value == parser[section][option] IN
    IF Lower(value) \in DOMAIN BOOLEAN_STATES
    THEN Return(BOOLEAN_STATES[Lower(value)])
    ELSE Raise("ValueError", <<"Not a boolean", value>>)

\* is_autorebuild_enabled that reads the default configuration only
is_autorebuild_enabled_default(parser) == getboolean(DEFAULT_CONFIG, "autorebuild", "enabled")

\* RepoConfiguration.is_autorebuild_enabled()
is_autorebuild_enabled(parser) == getboolean(parser, "autorebuild", "enabled")

\* RepoConfiguration(dir_path) with the INI file read first
NewRepoConfiguration(ini, file) ==
    IF ReadIni(ini).exc # "none" THEN ReadIni(ini) ELSE RepoConfiguration(file)

\* --------------------------------------------------- AdditionalTagsConfig

\* {0,127} of VALID_TAG_REGEX
MaxTagLen == 127

\* the characters of the model's tags that \w matches
WordChars == {"a", "b", "d", "s", "t", "_", "1"}

\* the characters str.strip() removes
Whitespace == {" ", "\t", "\n"}

\* [\w.]
InClass(c) == c \in WordChars \cup {"."}

\* [\w.]{0,127} matches all of s
ClassRun(s) == Len(s) <= MaxTagLen /\ \A i \in 1..Len(s) : InClass(s[i])

\* VALID_TAG_REGEX.match(tag): $ matches at the end of the tag, and also
\* just before a newline that ends the tag
RegexMatch(tag) ==
    \/ ClassRun(tag)
    \/ /\ tag # <<>>
       /\ tag[Len(tag)] = "\n"
       /\ ClassRun(SubSeq(tag, 1, Len(tag) - 1))

\* AdditionalTagsConfig._is_tag_valid(tag)
is_tag_valid(tag) == tag # <<>> /\ RegexMatch(tag)

\* tag.strip()
RECURSIVE Strip(_)
Strip(s) ==
    IF s = <<>> THEN s
    ELSE IF Head(s) \in Whitespace THEN Strip(Tail(s))
    ELSE IF s[Len(s)] \in Whitespace THEN Strip(SubSeq(s, 1, Len(s) - 1))
    ELSE s

\* no additional-tags file in the directory
NoTagsFile == [t |-> "nofile", v |-> <<>>, final_newline |-> FALSE]

\* an additional-tags file: its lines without their newlines, and whether
\* the last line ends with a newline
TagsFile(lines, nl) == [t |-> "file", v |-> lines, final_newline |-> nl]

\* for tag in f: the lines as iteration gives them, newline included
FileLines(f) ==
    [i \in 1..Len(f.v) |->
        IF i < Len(f.v) \/ f.final_newline THEN f.v[i] \o <<"\n">> ELSE f.v[i]]

\* the elements of a sequence
Range(q) == {q[i] : i \in 1..Len(q)}

\* AdditionalTagsConfig._populate_tags(): the fields it leaves, and whether
\* the file was opened
populate_tags(self, f) ==
    IF self._from_container_yaml THEN [self |-> self, read |-> FALSE]
    ELSE IF f = NoTagsFile THEN [self |-> self, read |-> FALSE]
    ELSE [self |-> [self EXCEPT !._tags = self._tags \cup
                       {t \in {Strip(l) : l \in Range(FileLines(f))} : is_tag_valid(t)}],
          read |-> TRUE]

\* AdditionalTagsConfig(dir_path, tags=arg)
AdditionalTagsConfig(arg, f) ==
    LET tags == Or(arg, EmptyList) IN
    populate_tags([_tags |-> {x \in Range(tags.v) : is_tag_valid(x)},
                   _from_container_yaml |-> IsTrue(tags)], f)

\* a tag of n times the character a
Run(n) == [i \in 1..n |-> "a"]

\* the entries of a tags argument
TagTexts ==
    { <<"s", ".", "a">>, <<"b", "-", "d">>, <<>>, <<"t", "_", "1", "\n">>,
      Run(MaxTagLen), Run(MaxTagLen + 1) }

\* tags=None, or a collection of tags
TagsArgs == {Null} \cup {List(q) : q \in UNION {[1..k -> TagTexts] : k \in 0..MaxTags}}

\* the lines of an additional-tags file
LineTexts ==
    { <<"s", ".", "a">>, <<" ", "s", ".", "a", "\t">>, <<"b", "-", "d">>, <<>>,
      Run(MaxTagLen + 1) }

TagsFiles ==
    {NoTagsFile}
        \cup {TagsFile(<<>>, FALSE)}
        \cup {TagsFile(q, nl) : q \in UNION {[1..k -> LineTexts] : k \in 1..MaxLines}, nl \in BOOLEAN}

\* the orders list(a_set) can give
ListsOf(S) == {q \in [1..Cardinality(S) -> S] : Range(q) = S}

\* ------------------------------------------- SpecModuleSpec: parse, format

NoResult == [exc |-> "pending"]

\* the ModuleSpec variables while the repository is modelled
ModuleIdle ==
    /\ text = <<>>
    /\ mpc = "idle"
    /\ parsed = NoResult
    /\ include_profile = FALSE
    /\ out = None

\* the repository variables while ModuleSpec is modelled
RepoIdle ==
    /\ container_file = NoFile
    /\ dockerfile_parser = NoParser
    /\ pc = "idle"
    /\ configuration = NoResult
    /\ _parsed = FALSE
    /\ _labels = NoLabels
    /\ _base_image = None
    /\ op = "none"
    /\ result = NoResult
    /\ derivations = 0
    /\ first = [labels |-> NoResult, base_image |-> NoResult]

\* the INI variables while no INI file is modelled
AutorebuildIdle ==
    /\ ini_file = NoIni
    /\ _config_parser = NoResult

\* the AdditionalTagsConfig variables while it is not modelled
TagsIdle ==
    /\ tags_arg = Null
    /\ tags_file = NoTagsFile
    /\ tpc = "idle"
    /\ _tags = {}
    /\ _from_container_yaml = FALSE
    /\ tags_out = <<>>
    /\ file_read = FALSE

ModuleInit ==
    /\ text \in Texts
    /\ mpc = "text"
    /\ parsed = NoResult
    /\ include_profile = FALSE
    /\ out = None
    /\ RepoIdle
    /\ AutorebuildIdle
    /\ TagsIdle

\* spec = ModuleSpec.from_str(text)
FromStr ==
    /\ mpc = "text"
    /\ parsed' = from_str(text)
    /\ mpc' = IF from_str(text).exc = "none" THEN "spec" ELSE "raised"
    /\ UNCHANGED <<text, include_profile, out, rvars, avars, tvars>>

\* out = spec.to_str(include_profile)
ToStr ==
    /\ mpc = "spec"
    /\ \E inc \in BOOLEAN :
          /\ include_profile' = inc
          /\ out' = to_str(parsed.value, inc)
    /\ mpc' = "str"
    /\ UNCHANGED <<text, parsed, rvars, avars, tvars>>

ModuleNext == FromStr \/ ToStr

SpecModuleSpec == ModuleInit /\ [][ModuleNext]_vars

\* ------------------------------- Spec: RepoConfiguration, then RepoInfo

Init ==
    /\ container_file \in ContainerFiles
    /\ dockerfile_parser \in DockerfileParsers
    /\ pc = "start"
    /\ configuration = NoResult
    /\ _parsed = FALSE
    /\ _labels = NoLabels
    /\ _base_image = None
    /\ op = "none"
    /\ result = NoResult
    /\ derivations = 0
    /\ first = [labels |-> NoResult, base_image |-> NoResult]
    /\ ModuleIdle
    /\ AutorebuildIdle
    /\ TagsIdle

\* configuration = RepoConfiguration(dir_path)
Construct ==
    /\ pc = "start"
    /\ configuration' = NewRepoConfiguration(ini_file, container_file)
    /\ _config_parser' = IF NewRepoConfiguration(ini_file, container_file).exc = "none"
                          THEN ReadIni(ini_file).value ELSE NoResult
    /\ pc' = IF NewRepoConfiguration(ini_file, container_file).exc = "none"
              THEN "configured" ELSE "raised"
    /\ UNCHANGED <<container_file, dockerfile_parser, _parsed, _labels, _base_image,
                   op, result, derivations, first, ini_file, mvars, tvars>>

\* repo_info = RepoInfo(dockerfile_parser, configuration)
NewInfo ==
    /\ pc = "configured"
    /\ _parsed' = NewRepoInfo._parsed
    /\ _labels' = NewRepoInfo._labels
    /\ _base_image' = NewRepoInfo._base_image
    /\ pc' = "info"
    /\ UNCHANGED <<container_file, dockerfile_parser, configuration,
                   op, result, derivations, first, mvars, avars, tvars>>

Self == [_parsed |-> _parsed, _labels |-> _labels, _base_image |-> _base_image]

\* the caller reads repo_info.labels or repo_info.base_image; a is what the
\* property does
Access(name, a) ==
    /\ pc = "info"
    /\ derivations < MaxDerivations
    /\ _parsed' = a.self._parsed
    /\ _labels' = a.self._labels
    /\ _base_image' = a.self._base_image
    /\ op' = name
    /\ result' = a.outcome
    /\ derivations' = IF a.ran THEN derivations + 1 ELSE derivations
    /\ first' = IF first[name] = NoResult THEN [first EXCEPT ![name] = a.outcome] ELSE first
    /\ UNCHANGED <<container_file, dockerfile_parser, pc, configuration, mvars, avars, tvars>>

AccessLabels == Access("labels", labels(Self, configuration.value, dockerfile_parser))

AccessBaseImage == Access("base_image", base_image(Self, configuration.value, dockerfile_parser))

Next == Construct \/ NewInfo \/ AccessLabels \/ AccessBaseImage

Spec == Init /\ [][Next]_vars

\* ------------------------- SpecAutorebuild: RepoConfiguration and its INI

\* a YAML boolean
Bool(b) == [t |-> "bool", v |-> b]

\* container.yaml files with and without an autorebuild mapping
AutorebuildContainers ==
    {NoFile, InvalidFile, Null}
        \cup { Map(Opt("compose", c) @@ Opt("autorebuild", a)) :
                 c \in {Absent, Map([modules |-> List(<< <<"n", ":", "s">> >>)]),
                        Map([modules |-> List(<< <<"n">> >>)])},
                 a \in {Absent, Null, EmptyMap, Map([add_timestamp_to_release |-> Bool(TRUE)])} }

AutorebuildInit ==
    /\ ini_file \in IniFiles
    /\ _config_parser = NoResult
    /\ container_file \in AutorebuildContainers
    /\ dockerfile_parser = NoParser
    /\ pc = "start"
    /\ configuration = NoResult
    /\ _parsed = FALSE
    /\ _labels = NoLabels
    /\ _base_image = None
    /\ op = "none"
    /\ result = NoResult
    /\ derivations = 0
    /\ first = [labels |-> NoResult, base_image |-> NoResult]
    /\ ModuleIdle
    /\ TagsIdle

\* the caller asks configuration.is_autorebuild_enabled()
IsAutorebuildEnabled ==
    /\ pc = "configured"
    /\ op' = "is_autorebuild_enabled"
    /\ result' = is_autorebuild_enabled(_config_parser)
    /\ UNCHANGED <<container_file, dockerfile_parser, pc, configuration, _parsed, _labels,
                   _base_image, derivations, first, mvars, avars, tvars>>

AutorebuildNext == Construct \/ IsAutorebuildEnabled

SpecAutorebuild == AutorebuildInit /\ [][AutorebuildNext]_vars

\* ------------------------------------------ SpecTags: AdditionalTagsConfig

TagsInit ==
    /\ tags_arg \in TagsArgs
    /\ tags_file \in TagsFiles
    /\ tpc = "start"
    /\ _tags = {}
    /\ _from_container_yaml = FALSE
    /\ tags_out = <<>>
    /\ file_read = FALSE
    /\ ModuleIdle
    /\ RepoIdle
    /\ AutorebuildIdle

\* conf = AdditionalTagsConfig(dir_path, tags=tags_arg)
ConstructTags ==
    /\ tpc = "start"
    /\ LET a == AdditionalTagsConfig(tags_arg, tags_file) IN
          /\ _tags' = a.self._tags
          /\ _from_container_yaml' = a.self._from_container_yaml
          /\ file_read' = a.read
    /\ tpc' = "constructed"
    /\ UNCHANGED <<tags_arg, tags_file, tags_out, mvars, rvars, avars>>

\* the caller reads conf.tags: list(self._tags), in some order
ReadTags ==
    /\ tpc = "constructed"
    /\ tags_out' \in ListsOf(_tags)
    /\ tpc' = "read"
    /\ UNCHANGED <<tags_arg, tags_file, _tags, _from_container_yaml, file_read,
                   mvars, rvars, avars>>

TagsNext == ConstructTags \/ ReadTags

SpecTags == TagsInit /\ [][TagsNext]_vars

\* ------------------------------------------------- properties: ModuleSpec

\* t is p, or p followed by one '/' and a suffix that holds no '/'
IsWithoutProfileSuffix(p, t) ==
    \/ p = t /\ \A i \in 1..Len(t) : t[i] # "/"
    \/ \E k \in 0..(Len(t) - 1) :
          /\ p = SubSeq(t, 1, k)
          /\ t[k + 1] = "/"
          /\ \A j \in (k + 2)..Len(t) : t[j] # "/"

\* t is m followed by one '/' and p, and p holds no '/'
IsProfileSuffix(p, t) ==
    \E k \in 1..Len(t) :
        /\ t[k] = "/"
        /\ p = SubSeq(t, k + 1, Len(t))
        /\ \A j \in (k + 1)..Len(t) : t[j] # "/"

\* C1: for every text that from_str accepts, to_str() of the result is the
\* text again, and to_str(include_profile=False) is the text with only its
\* trailing /profile suffix removed.
C1_RoundTrip ==
    mpc = "str" =>
        IF include_profile THEN out = text ELSE IsWithoutProfileSuffix(out, text)

\* a four-segment text with a profile has been parsed and formatted without
\* its profile
C1_Witness ==
    /\ mpc = "str"
    /\ ~include_profile
    /\ parsed.value.context # None
    /\ parsed.value.profile # None
    /\ Len(out) < Len(text)

\* the part of the text before its last '/', the whole text when it has none
ModulePartOf(t) == CHOOSE p \in {SubSeq(t, 1, k) : k \in 0..Len(t)} : IsWithoutProfileSuffix(p, t)

\* number of ':'-separated segments of m
SegmentCount(m) == Cardinality({i \in 1..Len(m) : m[i] = ":"}) + 1

\* some ':'-separated segment of m is empty
HasEmptySegment(m) ==
    \/ m = <<>>
    \/ m[1] = ":"
    \/ m[Len(m)] = ":"
    \/ \E i \in 1..(Len(m) - 1) : m[i] = ":" /\ m[i + 1] = ":"

Malformed(t) ==
    \/ SegmentCount(ModulePartOf(t)) < 2
    \/ SegmentCount(ModulePartOf(t)) > 4
    \/ HasEmptySegment(ModulePartOf(t))
    \/ (t # <<>> /\ t[Len(t)] = "/")

\* C2: from_str raises ValueError and returns no ModuleSpec for every text
\* whose module part has fewer than 2 or more than 4 segments, or an empty
\* segment, or whose profile after the last '/' is empty.
C2_Rejects ==
    (mpc # "text" /\ Malformed(text)) =>
        /\ mpc = "raised"
        /\ parsed.exc = "ValueError"
        /\ "value" \notin DOMAIN parsed

\* a well-segmented text was rejected only for its empty profile
C2_Witness ==
    /\ mpc = "raised"
    /\ text # <<>> /\ text[Len(text)] = "/"
    /\ SegmentCount(ModulePartOf(text)) = 3
    /\ ~HasEmptySegment(ModulePartOf(text))

NoColon(s) == \A i \in 1..Len(s) : s[i] # ":"

\* the segments joined by ':', absent (None) segments left out
JoinSegments(m) ==
    m.name \o <<":">> \o m.stream
        \o (IF m.version # None THEN <<":">> \o m.version ELSE <<>>)
        \o (IF m.context # None THEN <<":">> \o m.context ELSE <<>>)

\* C3: for every accepted text, name, stream, version and context are the
\* 1st..4th segments of the module part (None where the segment is absent)
\* and profile is the text after the last '/' (None without a '/'); context
\* is never set while version is None.
C3_Fields ==
    mpc \in {"spec", "str"} =>
        LET m == parsed.value IN
        /\ NoColon(m.name) /\ NoColon(m.stream)
        /\ m.version # None => NoColon(m.version)
        /\ m.context # None => NoColon(m.context)
        /\ JoinSegments(m) = ModulePartOf(text)
        /\ m.context # None => m.version # None
        /\ IF Contains(text, "/") THEN IsProfileSuffix(m.profile, text) ELSE m.profile = None

\* a three-segment text with a profile has been parsed
C3_Witness ==
    /\ mpc = "spec"
    /\ parsed.value.version # None
    /\ parsed.value.context = None
    /\ parsed.value.profile # None
    /\ Len(parsed.value.version) = 2

\* ------------------------------------------ properties: RepoConfiguration

\* the container YAML has a compose.modules list
HasModulesList ==
    /\ container_file.t = "map"
    /\ "compose" \in DOMAIN container_file.v
    /\ container_file.v["compose"].t = "map"
    /\ "modules" \in DOMAIN container_file.v["compose"].v
    /\ container_file.v["compose"].v["modules"].t = "list"

ModulesList == container_file.v["compose"].v["modules"].v

\* C4: with a malformed entry in compose.modules, construction raises one
\* ValueError that carries one error per malformed entry, in list order
\* (so every entry was parsed), and returns no RepoConfiguration; with no
\* malformed entry, container_module_specs holds one ModuleSpec per entry in
\* list order.
C4_AllModulesParsed ==
    (pc \in {"raised", "configured", "info"} /\ HasModulesList) =>
        LET bad == SelectSeq(ModulesList, Malformed) IN
        IF bad # <<>>
        THEN /\ pc = "raised"
             /\ configuration.exc = "ValueError"
             /\ "value" \notin DOMAIN configuration
             /\ Len(configuration.msg) = Len(bad)
             /\ \A k \in 1..Len(bad) :
                   /\ configuration.msg[k].exc = "ValueError"
                   /\ configuration.msg[k].msg[2] = ModulePartOf(bad[k])
        ELSE /\ configuration.exc = "none"
             /\ Len(configuration.value.container_module_specs) = Len(ModulesList)
             /\ \A k \in 1..Len(ModulesList) :
                   JoinSegments(configuration.value.container_module_specs[k])
                       = ModulePartOf(ModulesList[k])

\* construction failed on a list of two different malformed entries
C4_Witness ==
    /\ pc = "raised"
    /\ HasModulesList
    /\ configuration.exc = "ValueError"
    /\ Len(configuration.msg) = 2
    /\ configuration.msg[1] # configuration.msg[2]

\* --------------------------------------------------- properties: RepoInfo

\* an access to labels or base_image has returned or raised
Accessed == pc = "info" /\ op # "none"

Conf == configuration.value

\* C5: with is_flatpak true and no module specs, accessing labels raises
\* OsbsValidationException '"compose" config is missing "modules", required
\* for Flatpak' and returns no labels value.
C5_MissingModulesRaises ==
    (Accessed /\ op = "labels" /\ Conf.is_flatpak /\ Conf.container_module_specs = <<>>) =>
        result = MissingModules

\* What does hold of C5's case: the access that runs the derivation raises
\* the error, and leaves the instance parsed with no labels.
MissingModulesRaisedOnce ==
    [][(pc = "info" /\ Conf.is_flatpak /\ Conf.container_module_specs = <<>>
          /\ derivations' = derivations + 1)
       => (result' = MissingModules /\ _parsed' /\ _labels' = NoLabels)]_vars

\* the container YAML has the flatpak key, with this value
FlatpakIs(y) ==
    /\ container_file.t = "map"
    /\ "flatpak" \in DOMAIN container_file.v
    /\ container_file.v["flatpak"] = y

FlatpakNonEmpty ==
    /\ container_file.t = "map"
    /\ "flatpak" \in DOMAIN container_file.v
    /\ container_file.v["flatpak"].t = "map"
    /\ container_file.v["flatpak"].v # <<>>

\* the container YAML has no compose.modules
ComposeModulesAbsent ==
    /\ container_file.t = "map"
    /\ \/ "compose" \notin DOMAIN container_file.v
       \/ container_file.v["compose"].t = "null"
       \/ /\ container_file.v["compose"].t = "map"
          /\ "modules" \notin DOMAIN container_file.v["compose"].v

\* C6 as stated: with flatpak: {} and no compose.modules, accessing labels
\* raises the 'compose config missing modules' validation error.
C6_EmptyFlatpakRaises ==
    (Accessed /\ op = "labels" /\ FlatpakIs(EmptyMap) /\ ComposeModulesAbsent
        /\ dockerfile_parser # NoParser) =>
        result = MissingModules

\* C6 as amended: with no compose.modules, an empty flatpak mapping gives
\* is_flatpak false and no access raises the 'compose config missing
\* modules' error; a non-empty flatpak mapping gives is_flatpak true and the
\* access that runs the derivation raises that error.
C6_FlatpakMappingDecides ==
    /\ [](Accessed /\ ComposeModulesAbsent /\ FlatpakIs(EmptyMap) =>
             ~Conf.is_flatpak /\ result # MissingModules)
    /\ [](pc = "info" /\ ComposeModulesAbsent /\ FlatpakNonEmpty => Conf.is_flatpak)
    /\ [][(pc = "info" /\ ComposeModulesAbsent /\ FlatpakNonEmpty
             /\ derivations' = derivations + 1) => result' = MissingModules]_vars

\* labels has been read from a repository with flatpak: {} and no
\* compose.modules
C6_Witness ==
    /\ Accessed /\ op = "labels"
    /\ FlatpakIs(EmptyMap)
    /\ ComposeModulesAbsent
    /\ result.exc = "none"

\* a flatpak field counts as set when it is a non-empty str
IsSet(x) == x # None /\ x # <<>>

\* C7: with is_flatpak true and at least one module spec, the name label is
\* flatpak_name when set, else the first module's name; the component label
\* is flatpak_component when set, else the first module's name; the version
\* label is the first module's stream; base_image is flatpak_base_image;
\* later modules and the Dockerfile parser change none of them.
C7_FlatpakLabels ==
    (Accessed /\ Conf.is_flatpak /\ Conf.container_module_specs # <<>>) =>
        LET m1 == Conf.container_module_specs[1] IN
        /\ op = "labels" =>
              result = Return(Labels(
                  [name      |-> IF IsSet(Conf.flatpak_name) THEN Conf.flatpak_name ELSE m1.name,
                   component |-> IF IsSet(Conf.flatpak_component) THEN Conf.flatpak_component ELSE m1.name,
                   version   |-> m1.stream]))
        /\ op = "base_image" => result = Return(Conf.flatpak_base_image)

\* labels read from a flatpak repository with two different modules, no
\* flatpak name, and a Dockerfile that cannot be read
C7_Witness ==
    /\ Accessed /\ op = "labels"
    /\ Conf.is_flatpak
    /\ Len(Conf.container_module_specs) = 2
    /\ Conf.container_module_specs[1].name # Conf.container_module_specs[2].name
    /\ Conf.flatpak_name = None
    /\ Conf.flatpak_component = <<"f", "c">>
    /\ dockerfile_parser # NoParser
    /\ dockerfile_parser.labels = CantRead
    /\ result.exc = "none"

\* C8: a RepoInfo starts unparsed, its first access to labels or base_image
\* moves it to parsed, it never returns to unparsed, and the derivation runs
\* at most once over any sequence of accesses.
C8_ParsedOnce ==
    /\ [](pc = "info" => ((op = "none") <=> ~_parsed) /\ derivations <= 1)
    /\ [][pc = "info" /\ _parsed => _parsed']_vars

\* both properties have been read, base_image last, after one derivation
C8_Witness ==
    /\ Accessed /\ op = "base_image"
    /\ first["labels"] # NoResult
    /\ _parsed
    /\ derivations = 1

\* what the property gives on a RepoInfo that has not been accessed
Fresh(name) ==
    IF name = "labels"
    THEN labels(NewRepoInfo, Conf, dockerfile_parser).outcome
    ELSE base_image(NewRepoInfo, Conf, dockerfile_parser).outcome

\* C9: every access to labels (or base_image) has the outcome of a fresh
\* computation, so a repeated access has the outcome of the first one: the
\* same value, or the same error.
C9_Idempotent ==
    (Accessed /\ (Conf.is_flatpak \/ dockerfile_parser # NoParser)) =>
        result = Fresh(op) /\ result = first[op]

\* C10: with is_flatpak false, labels and base_image are the Dockerfile
\* parser's labels and baseimage; if reading either raises an I/O error, the
\* access raises RuntimeError 'Could not parse Dockerfile in <path>: <cause>'.
C10_DockerfileValues ==
    (Accessed /\ ~Conf.is_flatpak /\ dockerfile_parser # NoParser) =>
        IF dockerfile_parser.labels.exc = "none" /\ dockerfile_parser.baseimage.exc = "none"
        THEN /\ op = "labels" => result = Return(Labels(dockerfile_parser.labels.value))
             /\ op = "base_image" => result = Return(dockerfile_parser.baseimage.value)
        ELSE /\ result.exc = "RuntimeError"
             /\ result.msg[1] = "Could not parse Dockerfile in"
             /\ result.msg[2] = dockerfile_parser.dockerfile_path
             /\ result.msg[3] = CantRead.msg

\* What does hold of C10's case: the access that runs the derivation returns
\* the parser's value, or raises the RuntimeError when a read fails.
DockerfileValuesOnce ==
    [][(pc = "info" /\ ~Conf.is_flatpak /\ dockerfile_parser # NoParser
          /\ derivations' = derivations + 1)
       => IF dockerfile_parser.labels.exc = "none" /\ dockerfile_parser.baseimage.exc = "none"
          THEN /\ op' = "labels" => result' = Return(Labels(dockerfile_parser.labels.value))
               /\ op' = "base_image" => result' = Return(dockerfile_parser.baseimage.value)
          ELSE /\ result'.exc = "RuntimeError"
               /\ result'.msg[2] = dockerfile_parser.dockerfile_path
               /\ result'.msg[3] = CantRead.msg]_vars

\* ----------------------------------------- properties: AdditionalTagsConfig

\* a tag is valid: non-empty, at most 127 characters, each a word character
\* or a dot
ValidTag(tag) ==
    /\ tag # <<>>
    /\ Len(tag) <= MaxTagLen
    /\ \A i \in 1..Len(tag) : tag[i] \in WordChars \/ tag[i] = "."

Constructed == tpc \in {"constructed", "read"}

\* the tags argument is a non-empty collection
TagsSupplied == tags_arg.t = "list" /\ tags_arg.v # <<>>

\* the trimmed lines of the tags file
TrimmedLines == {Strip(l) : l \in Range(FileLines(tags_file))}

\* the entries of the source the tags come from
SourceEntries == IF TagsSupplied THEN Range(tags_arg.v) ELSE TrimmedLines

\* C11: every element of AdditionalTagsConfig.tags is a valid tag (non-empty,
\* at most 127 characters, word characters and dots only), from the
\* constructor argument or from the file; invalid entries are dropped, the
\* valid entries of the same source are kept, and duplicates collapse.
C11_TagsValid ==
    Constructed =>
        /\ \A t \in _tags : ValidTag(t)
        /\ _tags = {t \in SourceEntries : ValidTag(t)}
        /\ tpc = "read" => Range(tags_out) = _tags /\ Len(tags_out) = Cardinality(_tags)

\* What does hold of C11's case: tags that come from the file are valid,
\* and tags are the entries of their source that _is_tag_valid accepts.
FileTagsValid ==
    Constructed =>
        /\ ~_from_container_yaml => \A t \in _tags : ValidTag(t)
        /\ _tags = {t \in SourceEntries : is_tag_valid(t)}
        /\ tpc = "read" => Range(tags_out) = _tags /\ Len(tags_out) = Cardinality(_tags)

\* C12: with a non-empty tags collection (all entries invalid included),
\* from_container_yaml is true, the tags file is never read, and tags are
\* exactly the valid entries of the collection; with tags absent or empty,
\* from_container_yaml is false and tags are exactly the valid trimmed lines
\* of the tags file, or empty when there is no file.
C12_TagsSource ==
    Constructed =>
        IF TagsSupplied
        THEN /\ _from_container_yaml
             /\ ~file_read
             /\ _tags = {t \in Range(tags_arg.v) : ValidTag(t)}
        ELSE /\ ~_from_container_yaml
             /\ _tags = IF tags_file = NoTagsFile THEN {}
                        ELSE {t \in TrimmedLines : ValidTag(t)}

\* What does hold of C12's case: the source of the tags is chosen as the
\* claim says, with the entries kept being those _is_tag_valid accepts.
TagsSourceChosen ==
    Constructed =>
        IF TagsSupplied
        THEN /\ _from_container_yaml
             /\ ~file_read
             /\ _tags = {t \in Range(tags_arg.v) : is_tag_valid(t)}
        ELSE /\ ~_from_container_yaml
             /\ file_read = (tags_file # NoTagsFile)
             /\ _tags = IF tags_file = NoTagsFile THEN {}
                        ELSE {t \in TrimmedLines : ValidTag(t)}

\* ---------------------------- properties: RepoConfiguration and its files

\* the INI file has an [autorebuild] section that sets enabled
IniSetsEnabled ==
    /\ ini_file.t = "ini"
    /\ "autorebuild" \in DOMAIN ini_file.v
    /\ "enabled" \in DOMAIN ini_file.v["autorebuild"]

\* the spellings of true
TrueWords == {"true", "True", "yes", "on", "1"}

\* C13: is_autorebuild_enabled() is true exactly when the INI file exists
\* and its [autorebuild] section sets enabled to true, and false when the
\* file is absent or does not set the key, whatever the container YAML
\* holds; with no container YAML, container_module_specs and the
\* autorebuild mapping are empty.
C13_AutorebuildFromIni ==
    /\ (pc = "configured" /\ op = "is_autorebuild_enabled") =>
          /\ (result = Return(TRUE))
                <=> (IniSetsEnabled /\ ini_file.v["autorebuild"]["enabled"] \in TrueWords)
          /\ ~IniSetsEnabled => result = Return(FALSE)
    /\ (pc = "configured" /\ container_file = NoFile) =>
          /\ configuration.value.container_module_specs = <<>>
          /\ configuration.value.autorebuild = EmptyMap

\* enabled = True in the INI file and no container YAML: the answer is true
C13_Witness ==
    /\ pc = "configured" /\ op = "is_autorebuild_enabled"
    /\ container_file = NoFile
    /\ IniSetsEnabled
    /\ result = Return(TRUE)

\* the container YAML gives no module: no compose key, compose null, no
\* modules key, modules null, or an empty modules list
NoModulesGiven ==
    \/ ComposeModulesAbsent
    \/ /\ container_file.t = "map"
       /\ "compose" \in DOMAIN container_file.v
       /\ container_file.v["compose"].t = "map"
       /\ "modules" \in DOMAIN container_file.v["compose"].v
       /\ container_file.v["compose"].v["modules"] \in {Null, EmptyList}

\* C14: when the container YAML gives no module, construction succeeds with
\* container_module_specs = []; a non-empty flatpak mapping then gives
\* is_flatpak true, and an absent, null or empty one gives is_flatpak false
\* with flatpak_base_image, flatpak_component and flatpak_name all None.
C14_EmptyCompose ==
    (pc \in {"raised", "configured", "info"} /\ NoModulesGiven) =>
        /\ pc # "raised"
        /\ configuration.exc = "none"
        /\ configuration.value.container_module_specs = <<>>
        /\ IF FlatpakNonEmpty
           THEN configuration.value.is_flatpak
           ELSE /\ ~configuration.value.is_flatpak
                /\ configuration.value.flatpak_base_image = None
                /\ configuration.value.flatpak_component = None
                /\ configuration.value.flatpak_name = None

\* constructed from compose: {modules: null} and flatpak: null
C14_Witness ==
    /\ pc = "configured"
    /\ container_file.t = "map"
    /\ "compose" \in DOMAIN container_file.v
    /\ container_file.v["compose"] = Map([modules |-> Null])
    /\ FlatpakIs(Null)
    /\ ~configuration.value.is_flatpak
    /\ configuration.value.flatpak_name = None

====
